---- MODULE Spec2Model ----
(***************************************************************************)
(* Process management and stride scheduling core of os5:                   *)
(*   task/info.rs      Info, Priority (pass / priority / round)            *)
(*   task/manager.rs   TaskManager (ready queue: add / fetch)              *)
(*   syscall/process.rs  exit, yield, getpid, fork, exec, waitpid,         *)
(*                       get_time, task_info, set_priority, mmap, munmap,  *)
(*                       spawn                                             *)
(* The process entity (TaskControlBlock), the run loop, the loader, the    *)
(* pid allocator, the address-space layer and the exclusive-access cell    *)
(* are not part of these three files; they are modelled from the design    *)
(* document.                                                               *)
(***************************************************************************)
EXTENDS Integers, Sequences, FiniteSets, TLC

\* ---------------------------------------------------------------- bounds
\* number of pids the allocator hands out in one run (root included)
MaxProcs == 3
\* number of times the run loop grants the CPU in one run
MaxTurns == 3
\* width in bits of u64 / usize / isize, scaled down so that pass wraps
WordBits == 4
\* number of times pass may wrap in a run of the dispatch cycle
MaxRound == 2

\* ------------------------------------------------------------- constants
WordModulus == 2 ^ WordBits
\* config::BIG_PRIORITY, the stride numerator (scaled with the word width)
BIG_PRIORITY == 16
\* Priority::default().priority
DEFAULT_PRIORITY == 16
\* Option::None for a task reference
NONE == -1
\* "nothing was written through the user pointer"
NoWrite == -99
\* pid of the root process
INITPROC == 0
\* "the operation did not return: the kernel aborted"
ABORT == -98

\* names known to the loader, and the names passed to exec and spawn
Apps == {"initproc", "usertests"}
Names == {"usertests", "nosuch"}
\* readings of the millisecond clock
Times == {3}
\* arguments of exit
ExitCodes == {7}
\* arguments of set_priority
PrioArgs == {-1, 0, 1, 2}
\* arguments of waitpid
PidArgs == {-2, -1} \cup (0 .. MaxProcs - 1)
\* contents of register a0 of a process at the moment it traps into fork
RegVals == {0, 5}

\* config::PAGE_SIZE (scaled) and config::MAX_SYSCALL_NUM (scaled)
PAGE_SIZE == 2
MAX_SYSCALL_NUM == 2
\* MapPermission flag bits
MapPermission_R == 2
MapPermission_W == 4
MapPermission_X == 8
MapPermission_U == 16
\* virtual pages occupied by the loaded program image
ImagePages == {0}
\* arguments of mmap and munmap in the address-space runs
MmStarts == {0, PAGE_SIZE, PAGE_SIZE + 1, 2 * PAGE_SIZE}
MmLens == {PAGE_SIZE, 2 * PAGE_SIZE}
Ports == 0 .. 9
\* arguments in the runs of the whole syscall surface
FewRegVals == {0}
FewPids == {-1, 1}
FewPrios == {1, 2}
FewNames == {"initproc"}
FewStarts == {PAGE_SIZE, PAGE_SIZE + 1}
FewLens == {PAGE_SIZE}
FewPorts == {0, 3}
\* weights of the two tasks in the runs of the dispatch cycle: they divide
\* BIG_PRIORITY, or leave a remainder, or exceed it
StrideWeights == {2, 3, DEFAULT_PRIORITY, BIG_PRIORITY + 1}
\* readings of the microsecond clock
MicroTimes == {2000003}
\* the global TASK_MANAGER cell, as an object of exclusive access
TASK_MANAGER == -10
\* "the operation did not return: an exclusive access was acquired while held"
REENTERED == -97

VARIABLES
    tcb,         \* pid -> TaskControlBlock (inner fields) of every live entity
    task_queue,  \* TaskManager::task_queue, front first
    current,     \* the task the processor runs, or NONE
    fetched,     \* the run loop's local holding what fetch returned, or NONE
    next_pid,    \* pid allocator
    turns,       \* number of dispatches so far
    panicked,    \* the kernel aborted (unwrap on None, failed assertion)
    granted,     \* the tasks that were granted the CPU at least once
    last         \* the operation that acted last, its arguments and results

vars == <<tcb, task_queue, current, fetched, next_pid, turns, panicked, granted,
          last>>

\* ------------------------------------------------------- task/info.rs
Priority_default == [pass |-> 0, priority |-> DEFAULT_PRIORITY, round |-> 0]

Info_default ==
    [syscall_times |-> [id \in 0 .. MAX_SYSCALL_NUM - 1 |-> 0],
     start_time |-> 0, priority |-> Priority_default]

\* Info::during_time at millisecond clock reading now
during_time(info, now) == now - info.start_time

\* set_priority that does not store the weight
Info_set_priority_lost(info, p0) == info

\* set_priority that starts the accounting record afresh
Info_set_priority_resets(info, p0) ==
    [Info_default EXCEPT !.priority.priority = p0]

Info_set_priority(info, p0) == [info EXCEPT !.priority.priority = p0]

\* usize -> u64 cast (both one word wide)
AsU64(n) == n % WordModulus

\* isize -> usize cast
AsUsize(i) == IF i >= 0 THEN i % WordModulus ELSE (WordModulus + i) % WordModulus

\* update_pass that wraps pass without carrying into round
update_pass_no_carry(p) ==
    [p EXCEPT !.pass = (p.pass + AsU64(BIG_PRIORITY \div p.priority)) % WordModulus]

update_pass(p) ==
    LET sum == p.pass + AsU64(BIG_PRIORITY \div p.priority)
        overflowed == sum >= WordModulus
    IN  [p EXCEPT !.round = IF overflowed THEN @ + 1 ELSE @,
                  !.pass = sum % WordModulus]

Priority_eq(a, b) == a.round = b.round /\ a.pass = b.pass

\* Ordering as -1 (Less), 0 (Equal), 1 (Greater)
IntCmp(x, y) == IF x < y THEN -1 ELSE IF x = y THEN 0 ELSE 1

\* an ordering on pass alone, blind to the wraps
Priority_partial_cmp_pass_only(a, b) == IntCmp(a.pass, b.pass)

Priority_partial_cmp(a, b) ==
    IF a.round # b.round THEN IntCmp(a.round, b.round)
    ELSE IntCmp(a.pass, b.pass)

Priority_cmp(a, b) == Priority_partial_cmp(a, b)

\* ---------------------------------------------------- task/manager.rs
TaskManager_new == << >>

\* TaskControlBlock::pass, read in the task table ts
pass(ts, t) == ts[t].info.priority.pass

push_front(q, t) == <<t>> \o q
push_back(q, t) == Append(q, t)

\* add that always appends (the FIFO queue the stride queue replaced)
TaskManager_add_fifo(ts, q, t) == push_back(q, t)

TaskManager_add(ts, q, t) ==
    IF pass(ts, t) = 0 THEN push_front(q, t) ELSE push_back(q, t)

add_task(ts, q, t) == TaskManager_add(ts, q, t)

\* Iterator::min_by_key over enumerate(): a later element replaces the
\* best one only when the best compares Greater
RECURSIVE min_by_key(_, _, _)
min_by_key(q, best, i) ==
    IF i > Len(q) THEN best
    ELSE min_by_key(q,
           IF Priority_cmp(tcb[q[best]].info.priority,
                           tcb[q[i]].info.priority) = 1 THEN i ELSE best,
           i + 1)

\* VecDeque::remove(idx)
VecRemove(q, idx) == SubSeq(q, 1, idx - 1) \o SubSeq(q, idx + 1, Len(q))

\* fetch that pops the front (the FIFO queue the stride queue replaced)
fetch_idx_fifo(q) == 1

\* index selected by fetch on a non-empty queue
fetch_idx(q) == min_by_key(q, 1, 2)

\* ----------------------------------------------------- process entity
\* TrapContext::app_init_context: registers zeroed, entry point of the image
app_init_context(image) == [x10 |-> 0, sepc |-> image]

TaskControlBlock_new(image) ==
    [status |-> "Ready", parent |-> NONE, children |-> << >>,
     exit_code |-> 0, info |-> Info_default, memory_set |-> image,
     areas |-> {}, trap_cx |-> app_init_context(image)]

\* TaskControlBlock::fork: duplicate of the caller p, whose register a0 holds
\* a0 at the trap; fresh accounting record, linked to the caller
TaskControlBlock_fork(p, a0) ==
    [status |-> "Ready", parent |-> p, children |-> << >>,
     exit_code |-> 0, info |-> Info_default,
     memory_set |-> tcb[p].memory_set, areas |-> tcb[p].areas,
     trap_cx |-> [tcb[p].trap_cx EXCEPT !.x10 = a0]]

\* TaskControlBlock::exec followed by record_start at clock reading t
TaskControlBlock_exec(t, image, time) ==
    [t EXCEPT !.memory_set = image,
              !.areas = {},
              !.trap_cx = app_init_context(image),
              !.info.start_time = time]

\* TaskControlBlock::set_priority
TaskControlBlock_set_priority(t, p0) ==
    [t EXCEPT !.info = Info_set_priority(@, p0)]

get_app_data_by_name(name) == IF name \in Apps THEN name ELSE "none"

is_zombie(t) == tcb[t].status = "Zombie"

Range(s) == {s[i] : i \in 1 .. Len(s)}

Occurrences(s, x) == Cardinality({i \in 1 .. Len(s) : s[i] = x})

\* Arc::strong_count
strong_count(t) ==
    Cardinality({p \in DOMAIN tcb : t \in Range(tcb[p].children)})
    + Occurrences(task_queue, t)
    + (IF current = t THEN 1 ELSE 0)
    + (IF fetched = t THEN 1 ELSE 0)

\* op: the operation; ret: its return value; out: what it wrote through the
\* user pointer; task: the task it added, fetched, created or reaped
Op(op, ret, out, task) == [op |-> op, ret |-> ret, out |-> out, task |-> task]

Extend(f, k, v) == [x \in DOMAIN f \cup {k} |-> IF x = k THEN v ELSE f[x]]

Drop(f, k) == [x \in DOMAIN f \ {k} |-> f[x]]

\* ------------------------------------------------ address-space layer
VirtAddr_aligned(va) == va % PAGE_SIZE = 0

VirtAddr_floor(va) == va \div PAGE_SIZE

VirtAddr_ceil(va) == (va + PAGE_SIZE - 1) \div PAGE_SIZE

\* the virtual pages of [start_va, end_va)
VPNRange(start_va, end_va) == VirtAddr_floor(start_va) .. VirtAddr_ceil(end_va) - 1

\* MemorySet::insert_framed_area_check on the mapped pages areas:
\* <<Some(()) was returned, the mapped pages afterwards>>
insert_framed_area_check(areas, start_va, end_va, perm) ==
    IF VPNRange(start_va, end_va) \cap (areas \cup ImagePages) # {}
    THEN <<FALSE, areas>>
    ELSE <<TRUE, areas \cup VPNRange(start_va, end_va)>>

\* MemorySet::move_frame_area_check
move_frame_area_check(areas, start_va, end_va) ==
    IF VPNRange(start_va, end_va) \subseteq areas
    THEN <<TRUE, areas \ VPNRange(start_va, end_va)>>
    ELSE <<FALSE, areas>>

\* a decoding table whose entries for 3 and 5 are exchanged
change_port_to_permission_swapped(port) ==
    CASE port = 1 -> MapPermission_R + MapPermission_U
      [] port = 2 -> MapPermission_W + MapPermission_U
      [] port = 4 -> MapPermission_X + MapPermission_U
      [] port = 3 -> MapPermission_R + MapPermission_X + MapPermission_U
      [] port = 5 -> MapPermission_R + MapPermission_W + MapPermission_U
      [] port = 6 -> MapPermission_W + MapPermission_X + MapPermission_U
      [] port = 7 -> MapPermission_W + MapPermission_X + MapPermission_R
                     + MapPermission_U
      [] OTHER -> NONE

\* the flags are distinct bits, so | is +
change_port_to_permission(port) ==
    CASE port = 1 -> MapPermission_R + MapPermission_U
      [] port = 2 -> MapPermission_W + MapPermission_U
      [] port = 4 -> MapPermission_X + MapPermission_U
      [] port = 3 -> MapPermission_R + MapPermission_W + MapPermission_U
      [] port = 5 -> MapPermission_R + MapPermission_X + MapPermission_U
      [] port = 6 -> MapPermission_W + MapPermission_X + MapPermission_U
      [] port = 7 -> MapPermission_W + MapPermission_X + MapPermission_R
                     + MapPermission_U
      [] OTHER -> NONE

\* sys_mmap on the caller t: the caller afterwards, the return value and the
\* permission handed to the address-space layer (NoWrite: it was not called)
sys_mmap(t, start, len, port) ==
    LET perm == change_port_to_permission(port) IN
    IF perm = NONE THEN [task |-> t, ret |-> -1, perm |-> NoWrite]
    ELSE IF ~VirtAddr_aligned(start) THEN [task |-> t, ret |-> -1, perm |-> NoWrite]
    ELSE LET res == insert_framed_area_check(t.areas, start, start + len, perm)
         IN  IF res[1] THEN [task |-> [t EXCEPT !.areas = res[2]], ret |-> 0,
                             perm |-> perm]
             ELSE [task |-> t, ret |-> -1, perm |-> perm]

\* sys_munmap on the caller t: <<the caller afterwards, the return value>>
sys_munmap(t, start, len) ==
    IF ~VirtAddr_aligned(start) THEN <<t, -1>>
    ELSE LET res == move_frame_area_check(t.areas, start, start + len)
         IN  IF res[1] THEN <<[t EXCEPT !.areas = res[2]], 0>> ELSE <<t, -1>>

\* ------------------------------------------- exclusive-access holds
\* A handler's holds are the sequence of acquisitions and releases of
\* exclusive access it performs, on a task's interior (the pid) or on
\* TASK_MANAGER.
Acq(obj) == <<"acq", obj>>
Rel(obj) == <<"rel", obj>>
\* a temporary or a block-scoped guard
Scoped(obj) == <<Acq(obj), Rel(obj)>>

\* UPSafeCell: runs the holds hs from position i with the objects in held
\* borrowed; together collects every set of task interiors held at once
RECURSIVE Walk(_, _, _, _)
Walk(hs, i, held, together) ==
    IF i > Len(hs)
    THEN [reentered |-> FALSE, together |-> together, open |-> held]
    ELSE IF hs[i][1] = "acq"
    THEN IF hs[i][2] \in held
         THEN [reentered |-> TRUE, together |-> together, open |-> held]
         ELSE Walk(hs, i + 1, held \cup {hs[i][2]},
                   together \cup {(held \cup {hs[i][2]}) \ {TASK_MANAGER}})
    ELSE Walk(hs, i + 1, held \ {hs[i][2]}, together)

Holds(hs) == Walk(hs, 1, {}, {})

\* TaskControlBlock::pass
pass_holds(t) == Scoped(t)

\* add_task(t): TASK_MANAGER.exclusive_access().add(t)
add_holds(t) == <<Acq(TASK_MANAGER)>> \o pass_holds(t) \o <<Rel(TASK_MANAGER)>>

\* the key closure of fetch, called on every queued task from position i
RECURSIVE key_holds(_, _)
key_holds(q, i) ==
    IF i > Len(q) THEN << >> ELSE Scoped(q[i]) \o key_holds(q, i + 1)

\* fetch_task(): TASK_MANAGER.exclusive_access().fetch()
fetch_holds(q) == <<Acq(TASK_MANAGER)>> \o key_holds(q, 1) \o <<Rel(TASK_MANAGER)>>

\* the run loop marks the fetched task Running and charges its stride
dispatch_holds(t) == Scoped(t)

\* suspend_current_and_run_next
yield_holds(cur) == Scoped(cur) \o add_holds(cur)

\* exit_current_and_run_next
exit_holds(cur) == Scoped(cur)

\* TaskControlBlock::fork, then the child's trap context, then add_task
fork_holds(cur, child) == Scoped(cur) \o Scoped(child) \o add_holds(child)

\* task.exec(data); task.record_start()
exec_holds(cur, found) == IF found THEN Scoped(cur) \o Scoped(cur) ELSE << >>

\* a find closure whose guard on each child outlives the call
RECURSIVE find_holds_kept(_, _, _)
find_holds_kept(ch, i, upto) ==
    IF i > upto THEN << >> ELSE <<Acq(ch[i])>> \o find_holds_kept(ch, i + 1, upto)

\* the find closure of sys_waitpid, called on children ch[i .. upto]
RECURSIVE find_holds(_, _, _)
find_holds(ch, i, upto) ==
    IF i > upto THEN << >> ELSE Scoped(ch[i]) \o find_holds(ch, i + 1, upto)

\* sys_waitpid: inner is held from line 77 to the end; any matched tells
\* whether a child passed the filter, idx is the index find returned or 0
waitpid_holds(cur, ch, matched, idx) ==
    <<Acq(cur)>>
    \o (IF ~matched THEN << >>
        ELSE IF idx = 0 THEN find_holds(ch, 1, Len(ch))
        ELSE find_holds(ch, 1, idx) \o Scoped(ch[idx]))
    \o <<Rel(cur)>>

get_time_holds(cur) == Scoped(cur)

task_info_holds(cur) == Scoped(cur)

\* current_task.set_priority(prio), reached when prio >= 2
set_priority_holds(cur, accepted) == IF accepted THEN Scoped(cur) ELSE << >>

\* task_cx is acquired after the port and alignment checks
mmap_holds(cur, start, port) ==
    IF change_port_to_permission(port) = NONE \/ ~VirtAddr_aligned(start)
    THEN << >> ELSE Scoped(cur)

munmap_holds(cur, start) == IF ~VirtAddr_aligned(start) THEN << >> ELSE Scoped(cur)

\* sys_spawn that keeps task_cx_child until the end of the function
spawn_holds_child_kept(cur, child) ==
    <<Acq(child), Acq(cur)>> \o add_holds(child) \o <<Rel(cur), Rel(child)>>

\* sys_spawn: task_cx_child is dropped, task_cx_parent is held across add_task
spawn_holds(cur, child) ==
    Scoped(child) \o <<Acq(cur)>> \o add_holds(child) \o <<Rel(cur)>>

\* ------------------------------------------------------------ states
Init ==
    /\ tcb = [p \in {INITPROC} |-> TaskControlBlock_new("initproc")]
    /\ task_queue = <<INITPROC>>
    /\ current = NONE
    /\ fetched = NONE
    /\ next_pid = INITPROC + 1
    /\ turns = 0
    /\ panicked = FALSE
    /\ granted = {}
    /\ last = Op("boot", 0, NoWrite, INITPROC)

\* a handler that performs the holds hs: it aborts when it acquires what it
\* already holds, and otherwise acts as Body
Handler(hs, op, Body) ==
    LET reentered == Holds(hs).reentered IN
    \/ /\ Body
       /\ ~reentered
    \/ /\ panicked' = TRUE
       /\ reentered
       /\ last' = Op(op, REENTERED, NoWrite, NONE)
       /\ UNCHANGED <<tcb, task_queue, current, fetched, next_pid, turns,
                      granted>>

\* run loop: fetch_task()
Fetch ==
    /\ ~panicked
    /\ current = NONE
    /\ fetched = NONE
    /\ Handler(fetch_holds(task_queue), "fetch",
         IF task_queue = << >>
         THEN /\ panicked' = TRUE
              /\ last' = Op("fetch", ABORT, NoWrite, NONE)
              /\ UNCHANGED <<tcb, task_queue, current, fetched, next_pid, turns,
                             granted>>
         ELSE LET idx == fetch_idx(task_queue) IN
              /\ fetched' = task_queue[idx]
              /\ task_queue' = VecRemove(task_queue, idx)
              /\ last' = Op("fetch", 0, NoWrite, task_queue[idx])
              /\ UNCHANGED <<tcb, current, next_pid, turns, panicked, granted>>)

\* run loop: the fetched task is charged one stride and becomes Running;
\* counted is the number of dispatches the run has counted afterwards
Charge(counted) ==
    Handler(dispatch_holds(fetched), "dispatch",
      /\ tcb' = [tcb EXCEPT ![fetched].info.priority = update_pass(@),
                            ![fetched].status = "Running"]
      /\ current' = fetched
      /\ fetched' = NONE
      /\ turns' = counted
      /\ granted' = granted \cup {fetched}
      /\ last' = Op("dispatch", 0, NoWrite, fetched)
      /\ UNCHANGED <<task_queue, next_pid, panicked>>)

Dispatch ==
    /\ ~panicked
    /\ fetched # NONE
    /\ turns < MaxTurns
    /\ Charge(turns + 1)

\* the same step in the runs of the dispatch cycle, which are cut when a
\* task has wrapped MaxRound times instead of after MaxTurns dispatches
StrideDispatch ==
    /\ ~panicked
    /\ fetched # NONE
    /\ \A t \in DOMAIN tcb : tcb[t].info.priority.round < MaxRound
    /\ Charge(turns)

\* suspend_current_and_run_next
SysYield ==
    /\ ~panicked
    /\ current # NONE
    /\ Handler(yield_holds(current), "yield",
         /\ tcb' = [tcb EXCEPT ![current].status = "Ready"]
         /\ task_queue' = add_task(tcb', task_queue, current)
         /\ current' = NONE
         /\ last' = Op("yield", 0, NoWrite, current)
         /\ UNCHANGED <<fetched, next_pid, turns, panicked, granted>>)

\* children of the exiting task t are handed to the root process
Reparent(t) ==
    IF t = INITPROC THEN tcb
    ELSE [p \in DOMAIN tcb |->
            IF p = t THEN [tcb[p] EXCEPT !.children = << >>]
            ELSE IF p = INITPROC
                 THEN [tcb[p] EXCEPT !.children = @ \o tcb[t].children]
            ELSE IF p \in Range(tcb[t].children)
                 THEN [tcb[p] EXCEPT !.parent = INITPROC]
            ELSE tcb[p]]

\* sys_exit: exit_current_and_run_next(exit_code)
SysExit(exit_code) ==
    /\ ~panicked
    /\ current # NONE
    /\ Handler(exit_holds(current), "exit",
         /\ tcb' = [Reparent(current) EXCEPT ![current].status = "Zombie",
                                             ![current].exit_code = exit_code]
         /\ current' = NONE
         /\ last' = Op("exit", 0, NoWrite, current)
         /\ UNCHANGED <<task_queue, fetched, next_pid, turns, panicked, granted>>)

SysGetpid ==
    /\ ~panicked
    /\ current # NONE
    /\ last' = Op("getpid", current, NoWrite, current)
    /\ UNCHANGED <<tcb, task_queue, current, fetched, next_pid, turns, panicked,
                   granted>>

\* a child whose a0 is left as the parent's
fork_child_keeps_a0(p, a0) == TaskControlBlock_fork(p, a0)

\* the child as sys_fork hands it to the scheduler
fork_child(p, a0) ==
    [TaskControlBlock_fork(p, a0) EXCEPT !.trap_cx.x10 = 0]

SysFork(a0) ==
    /\ ~panicked
    /\ current # NONE
    /\ next_pid < MaxProcs
    /\ LET new_pid == next_pid IN
       Handler(fork_holds(current, new_pid), "fork",
         /\ tcb' = Extend([tcb EXCEPT ![current].children = Append(@, new_pid)],
                          new_pid, fork_child(current, a0))
         /\ task_queue' = add_task(tcb', task_queue, new_pid)
         /\ next_pid' = next_pid + 1
         /\ last' = Op("fork", new_pid, NoWrite, new_pid)
         /\ UNCHANGED <<current, fetched, turns, panicked, granted>>)

\* sys_exec that stamps start_time whether or not the name resolved
sys_exec_always_stamps(t, path, time) ==
    IF get_app_data_by_name(path) # "none"
    THEN <<TaskControlBlock_exec(t, get_app_data_by_name(path), time), 0>>
    ELSE <<[t EXCEPT !.info.start_time = time], -1>>

\* sys_exec on the caller t: <<the caller afterwards, the return value>>
sys_exec(t, path, time) ==
    IF get_app_data_by_name(path) # "none"
    THEN <<TaskControlBlock_exec(t, get_app_data_by_name(path), time), 0>>
    ELSE <<t, -1>>

SysExec(path, time) ==
    /\ ~panicked
    /\ current # NONE
    /\ Handler(exec_holds(current, get_app_data_by_name(path) # "none"), "exec",
         /\ tcb' = [tcb EXCEPT ![current] = sys_exec(@, path, time)[1]]
         /\ last' = Op("exec", sys_exec(tcb[current], path, time)[2], NoWrite,
                       current)
         /\ UNCHANGED <<task_queue, current, fetched, next_pid, turns, panicked,
                        granted>>)

\* a filter that takes every pid argument for the wildcard
waitpid_matches_any(pid, p) == TRUE

\* the filter of sys_waitpid applied to child p
waitpid_matches(pid, p) == pid = -1 \/ AsUsize(pid) = p

\* a find that takes the first child that passes the filter, zombie or not
waitpid_find_any_state(ch, pid, i) ==
    IF \E k \in i .. Len(ch) : waitpid_matches(pid, ch[k])
    THEN CHOOSE k \in i .. Len(ch) :
            /\ waitpid_matches(pid, ch[k])
            /\ \A j \in i .. k - 1 : ~waitpid_matches(pid, ch[j])
    ELSE 0

\* index of the first child of the task with children ch that is a zombie and
\* matches, or 0
RECURSIVE waitpid_find(_, _, _)
waitpid_find(ch, pid, i) ==
    IF i > Len(ch) THEN 0
    ELSE IF is_zombie(ch[i]) /\ waitpid_matches(pid, ch[i]) THEN i
    ELSE waitpid_find(ch, pid, i + 1)

\* reads the exit code of the caller instead of the child's
reaped_exit_code_own(child) == tcb[current].exit_code

\* the exit code sys_waitpid reads from the child it removed
reaped_exit_code(child) == tcb[child].exit_code

SysWaitpid(pid) ==
    /\ ~panicked
    /\ current # NONE
    /\ LET ch == tcb[current].children
           idx == waitpid_find(ch, pid, 1)
           matched == \E i \in 1 .. Len(ch) : waitpid_matches(pid, ch[i])
       IN  Handler(waitpid_holds(current, ch, matched, idx), "waitpid",
             /\ IF ~matched
                THEN /\ last' = Op("waitpid", -1, NoWrite, NONE)
                     /\ UNCHANGED <<tcb, panicked>>
                ELSE IF idx # 0
                THEN LET child == ch[idx]
                         removed == [tcb EXCEPT ![current].children =
                                                  VecRemove(@, idx)]
                     IN  IF strong_count(child) = 1
                         THEN /\ last' = Op("waitpid", child,
                                            reaped_exit_code(child), child)
                              /\ tcb' = Drop(removed, child)
                              /\ UNCHANGED panicked
                         ELSE /\ last' = Op("waitpid", ABORT, NoWrite, child)
                              /\ panicked' = TRUE
                              /\ tcb' = removed
                ELSE /\ last' = Op("waitpid", -2, NoWrite, NONE)
                     /\ UNCHANGED <<tcb, panicked>>
             /\ UNCHANGED <<task_queue, current, fetched, next_pid, turns,
                            granted>>)

\* a check that lets the weight 1 through
set_priority_rejects_below_one(prio) == prio < 1

\* the argument check of sys_set_priority
set_priority_rejects(prio) == prio < 2

SysSetPriority(prio) ==
    /\ ~panicked
    /\ current # NONE
    /\ Handler(set_priority_holds(current, ~set_priority_rejects(prio)),
               "set_priority",
         /\ IF set_priority_rejects(prio)
            THEN /\ tcb' = tcb
                 /\ last' = Op("set_priority", -1, NoWrite, current)
            ELSE /\ tcb' = [tcb EXCEPT ![current] =
                             TaskControlBlock_set_priority(@, AsUsize(prio))]
                 /\ last' = Op("set_priority", prio, NoWrite, current)
         /\ UNCHANGED <<task_queue, current, fetched, next_pid, turns, panicked,
                        granted>>)

\* a child that is not given its parent reference
spawn_child_unlinked(p, data) == TaskControlBlock_new(data)

\* the child as sys_spawn links it to the caller p
spawn_child(p, data) == [TaskControlBlock_new(data) EXCEPT !.parent = p]

\* a push that records the child twice
children_push_twice(children, child) == Append(Append(children, child), child)

\* task_cx_parent.children.push(new_task.clone())
children_push(children, child) == Append(children, child)

SysSpawn(path) ==
    /\ ~panicked
    /\ current # NONE
    /\ IF get_app_data_by_name(path) = "none"
       THEN /\ last' = Op("spawn", -1, NoWrite, NONE)
            /\ UNCHANGED <<tcb, task_queue, next_pid, current, fetched, turns,
                           panicked, granted>>
       ELSE /\ next_pid < MaxProcs
            /\ LET pid == next_pid IN
               Handler(spawn_holds(current, pid), "spawn",
                 /\ tcb' = Extend([tcb EXCEPT ![current].children =
                                                children_push(@, pid)],
                                  pid, spawn_child(current,
                                                   get_app_data_by_name(path)))
                 /\ task_queue' = add_task(tcb', task_queue, pid)
                 /\ next_pid' = next_pid + 1
                 /\ last' = Op("spawn", pid, NoWrite, pid)
                 /\ UNCHANGED <<current, fetched, turns, panicked, granted>>)

\* sys_get_time at microsecond clock reading us
SysGetTime(us) ==
    /\ ~panicked
    /\ current # NONE
    /\ Handler(get_time_holds(current), "get_time",
         /\ last' = Op("get_time", 0, <<us \div 1000000, us % 1000000>>, current)
         /\ UNCHANGED <<tcb, task_queue, current, fetched, next_pid, turns,
                        panicked, granted>>)

\* sys_task_info at millisecond clock reading now
SysTaskInfo(now) ==
    /\ ~panicked
    /\ current # NONE
    /\ Handler(task_info_holds(current), "task_info",
         /\ last' = Op("task_info", 0,
                       [status |-> tcb[current].status,
                        syscall_times |-> tcb[current].info.syscall_times,
                        time |-> during_time(tcb[current].info, now)],
                       current)
         /\ UNCHANGED <<tcb, task_queue, current, fetched, next_pid, turns,
                        panicked, granted>>)

SysMmap(start, len, port) ==
    /\ ~panicked
    /\ current # NONE
    /\ Handler(mmap_holds(current, start, port), "mmap",
         LET res == sys_mmap(tcb[current], start, len, port) IN
         /\ tcb' = [tcb EXCEPT ![current] = res.task]
         /\ last' = Op("mmap", res.ret, res.perm, current)
         /\ UNCHANGED <<task_queue, current, fetched, next_pid, turns, panicked,
                        granted>>)

SysMunmap(start, len) ==
    /\ ~panicked
    /\ current # NONE
    /\ Handler(munmap_holds(current, start), "munmap",
         LET res == sys_munmap(tcb[current], start, len) IN
         /\ tcb' = [tcb EXCEPT ![current] = res[1]]
         /\ last' = Op("munmap", res[2], NoWrite, current)
         /\ UNCHANGED <<task_queue, current, fetched, next_pid, turns, panicked,
                        granted>>)

Next ==
    \/ Fetch
    \/ Dispatch
    \/ SysYield
    \/ \E c \in ExitCodes : SysExit(c)
    \/ SysGetpid
    \/ \E a0 \in RegVals : SysFork(a0)
    \/ \E path \in Names, time \in Times : SysExec(path, time)
    \/ \E pid \in PidArgs : SysWaitpid(pid)
    \/ \E prio \in PrioArgs : SysSetPriority(prio)
    \/ \E path \in Names : SysSpawn(path)

Spec == Init /\ [][Next]_vars

\* Two perpetually-Ready tasks: the root was dispatched, forked task 1, set
\* its weight and yielded; task 1 was dispatched, set its weight and yielded.
InitStride ==
    \E w0 \in StrideWeights, w1 \in StrideWeights :
       LET charged(w) == [update_pass(Priority_default) EXCEPT !.priority = w] IN
       /\ tcb = [p \in {INITPROC, 1} |->
                   IF p = INITPROC
                   THEN [TaskControlBlock_new("initproc") EXCEPT
                           !.children = <<1>>,
                           !.info.priority = charged(w0)]
                   ELSE [TaskControlBlock_new("initproc") EXCEPT
                           !.parent = INITPROC,
                           !.info.priority = charged(w1)]]
       /\ task_queue = <<INITPROC, 1>>
       /\ current = NONE
       /\ fetched = NONE
       /\ next_pid = 2
       /\ turns = 2
       /\ panicked = FALSE
       /\ granted = {INITPROC, 1}
       /\ last = Op("yield", 0, NoWrite, 1)

\* the dispatch cycle: fetch, update_pass, run, yield (add)
NextStride ==
    \/ Fetch
    \/ StrideDispatch
    \/ SysYield

SpecStride == InitStride /\ [][NextStride]_vars

\* the run loop never stops and a perpetually-Ready task always yields
SpecStrideFair == SpecStride /\ WF_vars(NextStride)

\* the address-space syscalls of one process, over all their arguments
NextMm ==
    \/ Fetch
    \/ Dispatch
    \/ SysYield
    \/ \E start \in MmStarts, len \in MmLens, port \in Ports :
          SysMmap(start, len, port)
    \/ \E start \in MmStarts, len \in MmLens : SysMunmap(start, len)

SpecMm == Init /\ [][NextMm]_vars

\* the scheduler and every handler that takes exclusive access in
\* syscall/process.rs, with exit to produce zombies
NextAll ==
    \/ Fetch
    \/ Dispatch
    \/ SysYield
    \/ \E c \in ExitCodes : SysExit(c)
    \/ \E a0 \in FewRegVals : SysFork(a0)
    \/ \E pid \in FewPids : SysWaitpid(pid)
    \/ \E prio \in FewPrios : SysSetPriority(prio)
    \/ \E path \in FewNames : SysSpawn(path)
    \/ \E us \in MicroTimes : SysGetTime(us)
    \/ \E now \in Times : SysTaskInfo(now)
    \/ \E start \in FewStarts, len \in FewLens, port \in FewPorts :
          SysMmap(start, len, port)
    \/ \E start \in FewStarts, len \in FewLens : SysMunmap(start, len)

SpecAll == Init /\ [][NextAll]_vars

\* =================================================================== claims
\* the scheduling key of task t in the task table ts
KeyOf(ts, t) == <<ts[t].info.priority.round, ts[t].info.priority.pass>>

\* lexicographic order on (round, pass)
KeyLess(a, b) == a[1] < b[1] \/ (a[1] = b[1] /\ a[2] < b[2])

KeyLeq(a, b) == a = b \/ KeyLess(a, b)

\* the steps that hand a task to TaskManager::add
AddStep == last'.op \in {"yield", "fork"} \/ (last'.op = "spawn" /\ last'.ret >= 0)

\* C1: fetch on a non-empty ready queue returns a task whose (round, pass) is
\* the lexicographic minimum of the queue, the one nearest the front among
\* equals, and removes exactly that task, keeping the order of the others; a
\* queue holding a single task yields that task.
C1_FetchSelectsMin ==
    [][(last'.op = "fetch" /\ task_queue # << >>) =>
        \E i \in 1 .. Len(task_queue) :
            /\ fetched' = task_queue[i]
            /\ last'.task = task_queue[i]
            /\ \A j \in 1 .. Len(task_queue) :
                  KeyLeq(KeyOf(tcb, task_queue[i]), KeyOf(tcb, task_queue[j]))
            /\ \A j \in 1 .. i - 1 :
                  KeyLess(KeyOf(tcb, task_queue[i]), KeyOf(tcb, task_queue[j]))
            /\ task_queue' = [k \in 1 .. Len(task_queue) - 1 |->
                                IF k < i THEN task_queue[k] ELSE task_queue[k + 1]]
            /\ (Len(task_queue) = 1 => fetched' = task_queue[1] /\ task_queue' = << >>)
            /\ ~panicked'
      ]_vars

\* fetch chose between two tasks of equal key while a task of larger key
\* was queued too
C1_Witness ==
    /\ last.op = "fetch"
    /\ fetched # NONE
    /\ \E i, j \in 1 .. Len(task_queue) :
          /\ KeyOf(tcb, task_queue[i]) = KeyOf(tcb, fetched)
          /\ KeyLess(KeyOf(tcb, fetched), KeyOf(tcb, task_queue[j]))

\* C2: fetch on an empty ready queue returns none, does not abort, and
\* leaves the queue empty.
C2_FetchEmptyReturnsNone ==
    [][(last'.op = "fetch" /\ task_queue = << >>) =>
        (~panicked' /\ last'.task = NONE /\ fetched' = NONE /\ task_queue' = << >>)
      ]_vars

\* C3: add puts a task whose pass is 0 at the front of the ready queue and any
\* other task at the back; so when the two tasks at the front both have key
\* (0, 0), the later added one, which is in front, is what fetch returns.
C3_AddPlacement ==
    [][/\ AddStep =>
            LET t == last'.task IN
            /\ (tcb'[t].info.priority.pass = 0 => task_queue' = <<t>> \o task_queue)
            /\ (tcb'[t].info.priority.pass # 0 => task_queue' = task_queue \o <<t>>)
       /\ (/\ last'.op = "fetch"
           /\ Len(task_queue) >= 2
           /\ KeyOf(tcb, task_queue[1]) = <<0, 0>>
           /\ KeyOf(tcb, task_queue[2]) = <<0, 0>>) => fetched' = task_queue[1]
      ]_vars

\* tasks A then B were created (and so added) in that order, both still have
\* key (0, 0), and fetch returned B while A stays queued at the front
C3_Witness ==
    /\ last.op = "fetch"
    /\ fetched # NONE
    /\ task_queue # << >>
    /\ task_queue[1] < fetched
    /\ KeyOf(tcb, fetched) = <<0, 0>>
    /\ KeyOf(tcb, task_queue[1]) = <<0, 0>>
    /\ fetched \notin granted
    /\ task_queue[1] \notin granted

\* C4: a task never granted the CPU has key (0, 0); update_pass with weight w
\* sets pass to (pass + BIG_PRIORITY / w) modulo the word size, adds one to
\* round exactly when that sum overflows, and does not change the weight.
C4_UpdatePass ==
    /\ [](\A t \in DOMAIN tcb \ granted : KeyOf(tcb, t) = <<0, 0>>)
    /\ [][last'.op = "dispatch" =>
            LET t == last'.task
                old == tcb[t].info.priority
                new == tcb'[t].info.priority
                sum == old.pass + (BIG_PRIORITY \div old.priority)
            IN  /\ new.pass = sum % WordModulus
                /\ (sum >= WordModulus => new.round = old.round + 1)
                /\ (sum < WordModulus => new.round = old.round)
                /\ new.priority = old.priority
         ]_vars

\* the update just made wrapped pass around and carried into round
C4_Witness ==
    /\ last.op = "dispatch"
    /\ tcb[last.task].info.priority.round = 1
    /\ tcb[last.task].info.priority.pass < BIG_PRIORITY \div tcb[last.task].info.priority.priority

\* C5: set_priority(w) returns -1 and leaves the caller's weight as it was
\* for every w < 2; for every w >= 2 it returns w and the caller's weight is w
\* afterwards.
C5_SetPriority ==
    [][\A w \in PrioArgs : (last'.op = "set_priority" /\ SysSetPriority(w)) =>
          /\ (w < 2 => /\ last'.ret = -1
                       /\ tcb'[current].info.priority.priority
                            = tcb[current].info.priority.priority)
          /\ (w >= 2 => /\ last'.ret = w
                        /\ tcb'[current].info.priority.priority = w)
      ]_vars

\* a weight below 2 was just rejected, and the weight set earlier is kept
C5_Witness ==
    /\ last.op = "set_priority"
    /\ last.ret = -1
    /\ current # NONE
    /\ tcb[current].info.priority.priority = 2

\* the children of the running task that the waitpid filter pid selects
Matching(pid) ==
    {c \in Range(tcb[current].children) : pid = -1 \/ pid = c}

MatchingZombies(pid) == {c \in Matching(pid) : tcb[c].status = "Zombie"}

\* C6: waitpid(pid) returns -1 exactly when no child matches the filter, -2
\* exactly when a child matches but no matching child is a zombie, and
\* otherwise the pid of a matching zombie child; when it returns -1 or -2
\* the children are unchanged and nothing is written through the pointer.
C6_WaitpidResult ==
    [][\A pid \in PidArgs : (last'.op = "waitpid" /\ SysWaitpid(pid)) =>
          /\ (last'.ret = -1 <=> Matching(pid) = {})
          /\ (last'.ret = -2 <=> (Matching(pid) # {} /\ MatchingZombies(pid) = {}))
          /\ (MatchingZombies(pid) # {} => last'.ret \in MatchingZombies(pid))
          /\ (last'.ret \in {-1, -2} => /\ tcb' = tcb
                                       /\ last'.out = NoWrite)
      ]_vars

\* waitpid found a matching child, none of them a zombie, and said -2
C6_Witness ==
    /\ last.op = "waitpid"
    /\ last.ret = -2
    /\ current # NONE
    /\ tcb[current].children # << >>

\* s without its element x
Without(s, x) == SelectSeq(s, LAMBDA y : y # x)

\* C7: a successful waitpid removes exactly one child, a zombie matching the
\* filter; it returns that child's pid and writes that child's exit code; the
\* other children stay, in order, and every other task is untouched; the
\* reaped child is gone from every children collection and its pid is never
\* given out again, so it cannot be removed twice. With a zombie child of exit
\* code 7 and a live child, waitpid(-1) reaps the zombie and writes 7; with
\* only live children it returns -2; with no children it returns -1.
C7_WaitpidReaps ==
    /\ [][\A pid \in PidArgs :
            (last'.op = "waitpid" /\ last'.ret >= 0 /\ SysWaitpid(pid)) =>
            LET c == last'.ret
                ch == tcb[current].children
            IN  /\ c \in MatchingZombies(pid)
                /\ last'.out = tcb[c].exit_code
                /\ Occurrences(ch, c) = 1
                /\ tcb'[current].children = Without(ch, c)
                /\ Len(tcb'[current].children) = Len(ch) - 1
                /\ DOMAIN tcb' = DOMAIN tcb \ {c}
                /\ \A p \in DOMAIN tcb' : c \notin Range(tcb'[p].children)
                /\ \A p \in DOMAIN tcb' \ {current} : tcb'[p] = tcb[p]
                /\ c < next_pid'
         ]_vars
    /\ [][/\ DOMAIN tcb' \subseteq DOMAIN tcb \cup {next_pid}
           /\ next_pid' >= next_pid
           /\ (next_pid \in DOMAIN tcb' => next_pid' > next_pid)
           /\ \A p \in DOMAIN tcb' : Range(tcb'[p].children) \subseteq DOMAIN tcb'
         ]_vars
    /\ [][(/\ last'.op = "waitpid"
            /\ Len(tcb[current].children) = 2
            /\ SysWaitpid(-1)) =>
            \A z, r \in Range(tcb[current].children) :
               (/\ tcb[z].status = "Zombie" /\ tcb[z].exit_code = 7
                /\ tcb[r].status # "Zombie")
               => /\ last'.ret = z
                  /\ last'.out = 7
                  /\ tcb'[current].children = <<r>>
         ]_vars
    /\ [][\A pid \in PidArgs :
            (/\ last'.op = "waitpid"
             /\ tcb[current].children = << >>
             /\ SysWaitpid(pid)) => last'.ret = -1
         ]_vars
    /\ [][(/\ last'.op = "waitpid"
            /\ tcb[current].children # << >>
            /\ \A c \in Range(tcb[current].children) : tcb[c].status # "Zombie"
            /\ SysWaitpid(-1))
           => last'.ret = -2
         ]_vars

\* the zombie with exit code 7 was just reaped and a live child remains
C7_Witness ==
    /\ last.op = "waitpid"
    /\ last.ret >= 0
    /\ last.out = 7
    /\ current # NONE
    /\ Len(tcb[current].children) = 1
    /\ tcb[tcb[current].children[1]].status # "Zombie"
    /\ last.ret \notin DOMAIN tcb

\* C8: fork returns the pid of the new child, which differs from the
\* caller's; the child's saved a0 (x[10]) is 0; the child is in the ready
\* queue exactly once.
C8_Fork ==
    [][last'.op = "fork" =>
        LET c == last'.ret IN
        /\ c \notin DOMAIN tcb
        /\ DOMAIN tcb' = DOMAIN tcb \cup {c}
        /\ c # current
        /\ current' = current
        /\ tcb'[c].parent = current
        /\ tcb'[current].children = Append(tcb[current].children, c)
        /\ tcb'[c].trap_cx.x10 = 0
        /\ tcb'[c].status = "Ready"
        /\ Occurrences(task_queue, c) = 0
        /\ Occurrences(task_queue', c) = 1
        /\ Without(task_queue', c) = task_queue
      ]_vars

\* a task that already has a child forked another one
C8_Witness ==
    /\ last.op = "fork"
    /\ current # NONE
    /\ Len(tcb[current].children) = 2
    /\ tcb[current].children[2] = last.ret
    /\ last.ret \in Range(task_queue)
    /\ tcb[last.ret].trap_cx.x10 = 0

\* C9: spawn of a name the loader knows creates exactly one task, whose
\* parent is the caller; the task is appended to the caller's children and is
\* in the ready queue exactly once; its pid is returned; nothing else of the
\* caller, and no other task, changes.
C9_Spawn ==
    [][\A path \in Names :
         (last'.op = "spawn" /\ SysSpawn(path) /\ path \in Apps) =>
        LET c == last'.ret IN
        /\ c >= 0
        /\ c \notin DOMAIN tcb
        /\ DOMAIN tcb' = DOMAIN tcb \cup {c}
        /\ c # current
        /\ current' = current
        /\ tcb'[c].parent = current
        /\ tcb'[c].memory_set = path
        /\ tcb'[current] = [tcb[current] EXCEPT !.children = Append(@, c)]
        /\ \A p \in DOMAIN tcb \ {current} : tcb'[p] = tcb[p]
        /\ Occurrences(task_queue, c) = 0
        /\ Occurrences(task_queue', c) = 1
        /\ Without(task_queue', c) = task_queue
      ]_vars

\* a task that already has a child spawned another one
C9_Witness ==
    /\ last.op = "spawn"
    /\ last.ret >= 0
    /\ current # NONE
    /\ Len(tcb[current].children) = 2
    /\ tcb[current].children[2] = last.ret
    /\ tcb[last.ret].parent = current
    /\ last.ret \in Range(task_queue)

\* C10: exec or spawn of a name the loader does not know returns -1 and
\* changes nothing: no task is created, the caller and every other task are
\* as before, and the ready queue is as before.
C10_NotFound ==
    [][\A path \in Names \ Apps :
         (/\ last'.op \in {"exec", "spawn"}
          /\ (\E time \in Times : SysExec(path, time)) \/ SysSpawn(path)) =>
            /\ last'.ret = -1
            /\ tcb' = tcb
            /\ task_queue' = task_queue
            /\ next_pid' = next_pid
            /\ current' = current
            /\ ~panicked'
      ]_vars

\* an exec of an unknown name failed in a task that has run an image before
\* and has a child
C10_Witness ==
    /\ last.op = "exec"
    /\ last.ret = -1
    /\ current # NONE
    /\ tcb[current].info.start_time # 0
    /\ tcb[current].children # << >>

\* bit k of the port argument is set
PortBit(port, k) == (port \div (2 ^ k)) % 2 = 1

\* the permission a bitmask decoding of the port yields
PermissionOfBits(port) ==
    MapPermission_U
    + (IF PortBit(port, 0) THEN MapPermission_R ELSE 0)
    + (IF PortBit(port, 1) THEN MapPermission_W ELSE 0)
    + (IF PortBit(port, 2) THEN MapPermission_X ELSE 0)

\* C11: sys_mmap(start, len, port) returns -1 and leaves the caller's address
\* space (and every task) unchanged whenever port is outside 1..7 or start is
\* not page-aligned, without calling the address-space layer; for every port
\* in 1..7 with an aligned start the permission handed to the address-space
\* layer has R iff bit 0, W iff bit 1, X iff bit 2 and always U: the
\* seven-case table equals the bitmask decoding.
C11_MmapDecoding ==
    [][\A start \in MmStarts, len \in MmLens, port \in Ports :
         (last'.op = "mmap" /\ SysMmap(start, len, port)) =>
            /\ (port \notin 1 .. 7 \/ start % PAGE_SIZE # 0) =>
                  /\ last'.ret = -1
                  /\ last'.out = NoWrite
                  /\ tcb' = tcb
            /\ (port \in 1 .. 7 /\ start % PAGE_SIZE = 0) =>
                  /\ last'.out = PermissionOfBits(port)
                  /\ last'.ret \in {0, -1}
                  /\ last'.ret = -1 => tcb' = tcb
      ]_vars

\* a mapping with read and execute access (port 5) was inserted for a task
\* that already had another page mapped
C11_Witness ==
    /\ last.op = "mmap"
    /\ last.ret = 0
    /\ last.out = MapPermission_R + MapPermission_X + MapPermission_U
    /\ Cardinality(tcb[last.task].areas) >= 2

\* accumulated virtual runtime of task t: pass, with the wraps round counted
VirtualRuntime(t) ==
    tcb[t].info.priority.round * WordModulus + tcb[t].info.priority.pass

\* one stride step of task t
StrideOf(t) == BIG_PRIORITY \div tcb[t].info.priority.priority

Selected(p) == last.op = "dispatch" /\ last.task = p

\* the run was cut: a task has wrapped MaxRound times
RoundCapped == \E t \in DOMAIN tcb : tcb[t].info.priority.round >= MaxRound

\* C13: the stride scheduler starves no task: for perpetually-Ready tasks
\* with any weights set_priority accepts, however large, every task is
\* selected again and again under the fetch / update_pass / add cycle, also
\* after pass has wrapped (up to the point where the run is cut).
C13_NoStarvation ==
    /\ []<>(Selected(INITPROC) \/ RoundCapped)
    /\ []<>(Selected(1) \/ RoundCapped)

\* C14: for every task the key (round, pass), compared lexicographically,
\* never decreases; it changes only in the step in which the run loop charges
\* that task with update_pass, and grows there also when pass wraps to a
\* smaller value; add, fetch, set_priority, waitpid, mmap, munmap and every
\* other operation leave the round and pass of every task as they were.
C14_KeyMonotone ==
    [][\A t \in DOMAIN tcb \cap DOMAIN tcb' :
         /\ KeyLeq(KeyOf(tcb, t), KeyOf(tcb', t))
         /\ KeyOf(tcb', t) # KeyOf(tcb, t) =>
               /\ last'.op = "dispatch"
               /\ last'.task = t
               /\ tcb'[t].info.priority = update_pass(tcb[t].info.priority)
      ]_vars

\* a task whose pass has wrapped (its pass is below one stride step, its
\* round is 1) has mapped a page since
C14_Witness ==
    /\ last.op = "mmap"
    /\ last.ret = 0
    /\ tcb[last.task].info.priority.round = 1
    /\ tcb[last.task].info.priority.pass < StrideOf(last.task)

\* C15: in every reachable state the weight of every task is at least 2: it
\* starts at 16 and no sequence of set_priority, fork, spawn, exec and
\* scheduling steps brings it below 2, so BIG_PRIORITY / weight never divides
\* by zero.
C15_WeightAtLeastTwo ==
    \A t \in DOMAIN tcb : tcb[t].info.priority.priority >= 2

\* a task that set its weight to 2 and executed another image has a child
\* with the default weight, and was just refused a weight below 2
C15_Witness ==
    /\ last.op = "set_priority"
    /\ last.ret = -1
    /\ current # NONE
    /\ tcb[current].info.priority.priority = 2
    /\ tcb[current].memory_set = "usertests"
    /\ \E c \in Range(tcb[current].children) :
          tcb[c].info.priority.priority = DEFAULT_PRIORITY

\* C16: a successful set_priority(w) changes only the weight of the caller:
\* its pass and round, its syscall counters and start_time, and its place in
\* (or absence from) the ready queue are as before, and no other task is
\* changed.
C16_SetPriorityFrame ==
    [][\A w \in PrioArgs :
         (last'.op = "set_priority" /\ w >= 2 /\ SysSetPriority(w)) =>
          /\ tcb'[current].info.priority.pass = tcb[current].info.priority.pass
          /\ tcb'[current].info.priority.round = tcb[current].info.priority.round
          /\ tcb'[current].info.syscall_times = tcb[current].info.syscall_times
          /\ tcb'[current].info.start_time = tcb[current].info.start_time
          /\ tcb' = [tcb EXCEPT ![current].info.priority.priority = w]
          /\ task_queue' = task_queue
          /\ current' = current
          /\ fetched' = fetched
          /\ next_pid' = next_pid
          /\ ~panicked'
      ]_vars

\* a task that has been charged and has executed an image set its weight
\* while another task waited in the ready queue
C16_Witness ==
    /\ last.op = "set_priority"
    /\ last.ret = 2
    /\ current # NONE
    /\ tcb[current].info.priority.pass # 0
    /\ tcb[current].info.start_time # 0
    /\ task_queue # << >>

\* C17: in every reachable state, after any sequence of fork, spawn, exit
\* and waitpid, the children of every task P are live tasks whose parent is
\* P, no task is twice among the children of one task, and no task is among
\* the children of two tasks.
C17_ChildrenMatchParent ==
    \A p \in DOMAIN tcb :
       /\ \A i \in 1 .. Len(tcb[p].children) :
             /\ tcb[p].children[i] \in DOMAIN tcb
             /\ tcb[tcb[p].children[i]].parent = p
             /\ \A j \in 1 .. Len(tcb[p].children) :
                   tcb[p].children[i] = tcb[p].children[j] => i = j
       /\ \A q \in DOMAIN tcb :
             p # q => Range(tcb[p].children) \cap Range(tcb[q].children) = {}

\* the root reaped a child that had spawned a task of its own and exited:
\* the spawned task is now the only child of the root
C17_Witness ==
    /\ last.op = "waitpid"
    /\ last.ret = 1
    /\ 1 \notin DOMAIN tcb
    /\ 2 \in DOMAIN tcb
    /\ tcb[INITPROC].children = <<2>>
    /\ tcb[2].parent = INITPROC
    /\ tcb[2].memory_set = "usertests"

\* C18: whenever sys_waitpid removes a zombie child, nothing else holds a
\* strong reference to it (it is not in the ready queue, not fetched and not
\* running), so the assertion that its strong count is 1 never fails; the
\* storage of the child is reclaimed in that step, and the storage of no
\* task is reclaimed in any other step.
C18_ReapedChildIsUnshared ==
    [][/\ last'.op = "waitpid" => last'.ret # ABORT
       /\ \A t \in DOMAIN tcb :
             (last'.op = "waitpid" /\ last'.task = t) =>
                /\ tcb[t].status = "Zombie"
                /\ t \notin Range(task_queue)
                /\ current # t
                /\ fetched # t
                /\ strong_count(t) = 1
                /\ t \notin DOMAIN tcb'
                /\ ~panicked'
       /\ \A t \in DOMAIN tcb \ DOMAIN tcb' :
             last'.op = "waitpid" /\ last'.ret = t
      ]_vars

\* a zombie child was reaped while another task waited in the ready queue
C18_Witness ==
    /\ last.op = "waitpid"
    /\ last.ret >= 0
    /\ last.ret \notin DOMAIN tcb
    /\ task_queue # << >>
    /\ ~panicked

\* C19: no control path of fork, spawn, waitpid, get_time, task_info,
\* set_priority, mmap, munmap or of the scheduler's add and fetch acquires
\* exclusive access to the interior of one task, or to the ready-queue
\* state, while it already holds it: the state of the abort on a re-entrant
\* acquisition is unreachable.
C19_NoReentrantAcquire == last.ret # REENTERED

\* spawn returned: it took the child's interior inside add_task while it
\* held the caller's interior and the ready queue, with another task queued
C19_Witness ==
    /\ last.op = "spawn"
    /\ last.ret >= 0
    /\ ~panicked
    /\ Len(task_queue) >= 2
    /\ last.ret \in Range(tcb[current].children)

\* the holds of sys_waitpid(pid) called by the running task
WaitpidHolds(pid) ==
    waitpid_holds(current, tcb[current].children,
                  \E i \in 1 .. Len(tcb[current].children) :
                     waitpid_matches(pid, tcb[current].children[i]),
                  waitpid_find(tcb[current].children, pid, 1))

\* the handler with holds hs never holds two interiors at once and holds
\* nothing when it returns
OneAtATime(hs) ==
    /\ ~Holds(hs).reentered
    /\ Holds(hs).open = {}
    /\ \A together \in Holds(hs).together : Cardinality(together) <= 1

\* the handler with holds hs, run by the task caller, holds at most the
\* caller's interior and one child's at once, and nothing when it returns
CallerAndOneChild(hs, caller, children) ==
    /\ ~Holds(hs).reentered
    /\ Holds(hs).open = {}
    /\ \A together \in Holds(hs).together :
          \/ Cardinality(together) <= 1
          \/ \E c \in children : c # caller /\ together = {caller, c}

\* the handlers that take one interior at a time
ScopedHandlers ==
    /\ (last'.op = "fetch" /\ Fetch) => OneAtATime(fetch_holds(task_queue))
    /\ (last'.op = "yield" /\ SysYield) => OneAtATime(yield_holds(current))
    /\ (last'.op = "fork" /\ \E a0 \in FewRegVals : SysFork(a0)) =>
          OneAtATime(fork_holds(current, next_pid))
    /\ (last'.op = "get_time" /\ \E us \in MicroTimes : SysGetTime(us)) =>
          OneAtATime(get_time_holds(current))
    /\ (last'.op = "task_info" /\ \E now \in Times : SysTaskInfo(now)) =>
          OneAtATime(task_info_holds(current))
    /\ \A prio \in FewPrios :
          (last'.op = "set_priority" /\ SysSetPriority(prio)) =>
             OneAtATime(set_priority_holds(current, ~set_priority_rejects(prio)))
    /\ \A start \in FewStarts, len \in FewLens, port \in FewPorts :
          (last'.op = "mmap" /\ SysMmap(start, len, port)) =>
             OneAtATime(mmap_holds(current, start, port))
    /\ \A start \in FewStarts, len \in FewLens :
          (last'.op = "munmap" /\ SysMunmap(start, len)) =>
             OneAtATime(munmap_holds(current, start))

\* C20 as stated: in every handler the caller releases the interior it
\* holds before it acquires another task's interior and before it returns,
\* so one control path never holds the interiors of two tasks at once.
C20_OneInteriorAtATime ==
    [][/\ ScopedHandlers
       /\ \A pid \in FewPids :
             (last'.op = "waitpid" /\ SysWaitpid(pid)) =>
                OneAtATime(WaitpidHolds(pid))
       /\ \A path \in FewNames :
             (last'.op = "spawn" /\ SysSpawn(path)) =>
                OneAtATime(spawn_holds(current, next_pid))
      ]_vars

\* C20 amended: sys_waitpid and sys_spawn hold the caller's interior while
\* they take the interior of one child at a time (sys_waitpid of each child
\* it inspects, sys_spawn of the new child inside add_task): there one
\* control path holds two interiors at once, the caller's and one of its
\* children's, never more and never the same one twice. Every other handler
\* and fetch hold at most one interior at a time, and every handler has
\* released all its holds when it returns.
C20_CallerAndOneChild ==
    [][/\ ScopedHandlers
       /\ \A pid \in FewPids :
             (last'.op = "waitpid" /\ SysWaitpid(pid)) =>
                CallerAndOneChild(WaitpidHolds(pid), current,
                                  Range(tcb[current].children))
       /\ \A path \in FewNames :
             (last'.op = "spawn" /\ SysSpawn(path)) =>
                CallerAndOneChild(spawn_holds(current, next_pid), current,
                                  Range(tcb'[current].children))
      ]_vars

\* waitpid found two live children and no zombie: it took the interior of
\* each, one after the other, while it held the caller's
C20_Witness ==
    /\ last.op = "waitpid"
    /\ last.ret = -2
    /\ current # NONE
    /\ Len(tcb[current].children) = 2

====
